---- MODULE Spec2Model ----
(***************************************************************************)
(* A model of the draft engine of drftr (src/src/lib.rs and                *)
(* src/src/draft_types.rs): one League with its ActivePlayers, the two     *)
(* rotation functions, and the operations lock, advance, activate,         *)
(* deactivate, waiver, trade, the queue edits and add_to_player_picks.     *)
(*                                                                         *)
(* A Draftable is modelled by its name() (the only thing the engine reads  *)
(* of it); names are the numbers 1..NumItems.  Seats are 0-based as in the *)
(* code; TLA+ sequences are 1-based, so seat s is players[s + 1].          *)
(* The roster handed to League::new holds the distinct ids 1..n; the id    *)
(* n + 1 belongs to nobody in the league.                                  *)
(* All arithmetic stays far below 2^32, so u32 is modelled by the naturals.*)
(* team_size is at least 1: with team_size = 0 the subtraction in          *)
(* League::new (lib.rs:152) overflows.                                     *)
(***************************************************************************)
EXTENDS Integers, Sequences, FiniteSets, TLC

\* ---- bounds of the model -------------------------------------------------
\* Spec: every operation of the league
MaxPlayers == 2
MaxTeamSize == 2
NumItems == 2
MaxQueue == 1
MaxPicks == 2
\* SpecDraft: the draft itself (lock, advance, the queue edits)
DraftMaxPlayers == 2
DraftMaxTeamSize == 2
DraftNumItems == 2
DraftMaxQueue == 2
DraftMaxPicks == 3
\* SpecAdvance: a new league driven by advance() alone
AdvMaxPlayers == 5
AdvMaxTeamSize == 3
AdvExtraCalls == 2
\* SpecSkip: a draft in which one turn is skipped by a direct advance()
SkipMaxPlayers == 3
SkipMaxTeamSize == 2
SkipNumItems == 2
SkipMaxQueue == 1
SkipMaxPicks == 3
\* SpecGuild: the leagues of a DraftGuild
GuildNumNames == 3
GuildNumIds == 2
\* SpecFifo: locks that cascade through queues of several different names
FifoMaxPlayers == 2
FifoMaxTeamSize == 2
FifoNumItems == 3
FifoMaxQueue == 2
FifoMaxPicks == 2

VARIABLES
    players,        \* League.players: sequence of [id, picks, queue]
    active,         \* League.active
    current_seat,   \* League.current_seat
    total_picks,    \* League.total_picks
    draft_type,     \* League.draft_type
    final_pick,     \* League.final_pick
    call,           \* the name of the last call made on the league or the guild
    ret,            \* what that call returned
    ncalls,         \* SpecAdvance: the number of advance() calls made so far
    lim,            \* the limits of the run: [items, queue, picks]
    skipped,        \* SpecSkip: the id of the participant whose turn was skipped
                    \* by a direct advance(), 0 while no turn was skipped
    leagues         \* DraftGuild.leagues: the entries [key, league] of the map

vars == <<players, active, current_seat, total_picks, draft_type, final_pick,
          call, ret, ncalls, lim, skipped, leagues>>

\* the names the callers of this run draw their Draftables from
ItemNames == 1..lim.items

DraftType == {"Snake", "Linear"}

\* ---- draft_types.rs -------------------------------------------------------

RECURSIVE SnakeWalk(_, _, _, _)
\* the body of the for loop of snake_draft, from index i to index last
SnakeWalk(i, last, number_of_drafters, next_seat) ==
    IF i > last THEN next_seat
    ELSE IF i % number_of_drafters = 0
         THEN SnakeWalk(i + 1, last, number_of_drafters, next_seat)
    ELSE IF i % (2 * number_of_drafters) <= number_of_drafters
         THEN SnakeWalk(i + 1, last, number_of_drafters, next_seat + 1)
    ELSE SnakeWalk(i + 1, last, number_of_drafters, next_seat - 1)

RECURSIVE SnakeWalkNoSeam(_, _, _, _)
SnakeWalkNoSeam(i, last, number_of_drafters, next_seat) ==
    IF i > last THEN next_seat
    ELSE IF i = 0
         THEN SnakeWalkNoSeam(i + 1, last, number_of_drafters, next_seat)
    ELSE IF i % (2 * number_of_drafters) <= number_of_drafters
         THEN SnakeWalkNoSeam(i + 1, last, number_of_drafters, next_seat + 1)
    ELSE SnakeWalkNoSeam(i + 1, last, number_of_drafters, next_seat - 1)

\* mutant: the walk does not skip the step at a multiple of number_of_drafters
snake_draft_no_seam(total_picks_, number_of_drafters) ==
    SnakeWalkNoSeam(0, total_picks_ + 1, number_of_drafters, 0)

snake_draft(total_picks_, number_of_drafters) ==
    SnakeWalk(0, total_picks_ + 1, number_of_drafters, 0)

\* mutant: the current seat's own index instead of the next one
linear_draft_off_by_one(total_picks_, number_of_drafters) ==
    total_picks_ % number_of_drafters

\* mutant: the seat is not wrapped at the end of the roster
linear_draft_no_wrap(total_picks_, number_of_drafters) ==
    total_picks_ + 1

linear_draft(total_picks_, number_of_drafters) ==
    (total_picks_ + 1) % number_of_drafters

\* ---- ActivePlayer ---------------------------------------------------------

\* Iterator::position: the index of the first entry named name, 0 for None
Position(s, name) ==
    IF \E i \in 1..Len(s) : s[i] = name
    THEN CHOOSE i \in 1..Len(s) : s[i] = name /\ \A j \in 1..(i - 1) : s[j] # name
    ELSE 0

\* Vec::remove / VecDeque::remove at a valid index
RemoveAt(s, i) == SubSeq(s, 1, i - 1) \o SubSeq(s, i + 1, Len(s))

add_to_queue(p, item) == [p EXCEPT !.queue = Append(@, item)]

lock_in(p, item) == [p EXCEPT !.picks = Append(@, item)]

\* mutant: takes the item at the back of the queue
first_in_queue_back(p) ==
    [player |-> [p EXCEPT !.queue = SubSeq(@, 1, Len(@) - 1)], item |-> p.queue[Len(p.queue)]]

\* first_in_queue on a non-empty queue: the player afterwards and the item popped
\* (None, on an empty queue, is the caller's test queue # <<>>)
first_in_queue(p) ==
    [player |-> [p EXCEPT !.queue = Tail(@)], item |-> Head(p.queue)]

\* mutant: removes every entry of that name
delete_from_queue_all(p, name) ==
    [p EXCEPT !.queue = SelectSeq(@, LAMBDA x : x # name)]

\* the player after delete_from_queue(name); found <=> Position(queue) # 0
delete_from_queue(p, name) ==
    LET idx == Position(p.queue, name)
    IN IF idx # 0 THEN [p EXCEPT !.queue = RemoveAt(@, idx)] ELSE p

delete_from_picks(p, item) ==
    LET idx == Position(p.picks, item)
    IN IF idx # 0 THEN [p EXCEPT !.picks = RemoveAt(@, idx)] ELSE p

\* ---- League ---------------------------------------------------------------

\* the league as one value, for the operators below
Self == [players |-> players, active |-> active, current_seat |-> current_seat,
         total_picks |-> total_picks, draft_type |-> draft_type,
         final_pick |-> final_pick]

\* League::new over the roster 1..n
NewLeague(n, dt, team_size) ==
    [players |-> [i \in 1..n |-> [id |-> i, picks |-> <<>>, queue |-> <<>>]],
     active |-> FALSE, current_seat |-> 0, total_picks |-> 0,
     draft_type |-> dt, final_pick |-> (n * team_size) - 1]

\* get_player_mut / get_player: the index of the first player with that id, 0 for None
get_player(L, id) ==
    IF \E i \in 1..Len(L.players) : L.players[i].id = id
    THEN CHOOSE i \in 1..Len(L.players) :
            L.players[i].id = id /\ \A j \in 1..(i - 1) : L.players[j].id # id
    ELSE 0

\* all_picks, as the sequence of names (empty where the code maps NoPicksError to Vec::new())
RECURSIVE AllPicksFrom(_, _)
AllPicksFrom(ps, i) ==
    IF i > Len(ps) THEN <<>> ELSE ps[i].picks \o AllPicksFrom(ps, i + 1)

all_picks(L) == AllPicksFrom(L.players, 1)

InUse(L, name) == \E k \in 1..Len(all_picks(L)) : all_picks(L)[k] = name

deactivate(L) == [L EXCEPT !.active = FALSE]

\* mutant: activating the league also starts the draft over
activate_restarts(L) == [L EXCEPT !.active = TRUE, !.current_seat = 0, !.total_picks = 0]

activate(L) == [L EXCEPT !.active = TRUE]

\* mutant: completion is reported but the league is left as it is
advance_stays_active(L) ==
    IF L.total_picks = L.final_pick
    THEN [league |-> L, some |-> FALSE, seat |-> 0]
    ELSE LET next == IF L.draft_type = "Snake"
                     THEN snake_draft(L.total_picks, Len(L.players))
                     ELSE linear_draft(L.total_picks, Len(L.players))
         IN [league |-> [L EXCEPT !.current_seat = next, !.total_picks = @ + 1],
             some |-> TRUE, seat |-> next]

\* mutant: completion is reported one advance late
advance_late(L) ==
    IF L.total_picks = L.final_pick + 1
    THEN [league |-> deactivate(L), some |-> FALSE, seat |-> 0]
    ELSE LET next == IF L.draft_type = "Snake"
                     THEN snake_draft(L.total_picks, Len(L.players))
                     ELSE linear_draft(L.total_picks, Len(L.players))
         IN [league |-> [L EXCEPT !.current_seat = next, !.total_picks = @ + 1],
             some |-> TRUE, seat |-> next]

\* mutant: the completion test is missing, every call moves to the next seat
advance_never_completes(L) ==
    LET next == IF L.draft_type = "Snake"
                THEN snake_draft(L.total_picks, Len(L.players))
                ELSE linear_draft(L.total_picks, Len(L.players))
    IN [league |-> [L EXCEPT !.current_seat = next, !.total_picks = @ + 1],
        some |-> TRUE, seat |-> next]

\* mutant: on an inactive league advance reports completion and changes nothing
advance_when_active(L) ==
    IF ~L.active \/ L.total_picks = L.final_pick
    THEN [league |-> deactivate(L), some |-> FALSE, seat |-> 0]
    ELSE LET next == IF L.draft_type = "Snake"
                     THEN snake_draft(L.total_picks, Len(L.players))
                     ELSE linear_draft(L.total_picks, Len(L.players))
         IN [league |-> [L EXCEPT !.current_seat = next, !.total_picks = @ + 1],
             some |-> TRUE, seat |-> next]

\* advance: the league afterwards and the Option returned (some, seat)
advance(L) ==
    IF L.total_picks = L.final_pick
    THEN [league |-> deactivate(L), some |-> FALSE, seat |-> 0]
    ELSE LET next == IF L.draft_type = "Snake"
                     THEN snake_draft(L.total_picks, Len(L.players))
                     ELSE linear_draft(L.total_picks, Len(L.players))
         IN [league |-> [L EXCEPT !.current_seat = next, !.total_picks = @ + 1],
             some |-> TRUE, seat |-> next]

RECURSIVE lock_private_prepend(_, _, _)
\* mutant: the record of a pick is put in front of the records made so far
lock_private_prepend(L, pick, returned_picks) ==
    LET purged == [i \in 1..Len(L.players) |-> delete_from_queue(L.players[i], pick)]
        cur == L.current_seat + 1
        returned == <<(<<purged[cur].id, pick>>)>> \o returned_picks
        locked == [L EXCEPT !.players = [purged EXCEPT ![cur] = lock_in(@, pick)]]
        adv == advance(locked)
    IN IF adv.some /\ adv.league.players[adv.seat + 1].queue # <<>>
       THEN LET popped == first_in_queue(adv.league.players[adv.seat + 1])
            IN lock_private_prepend(
                 [adv.league EXCEPT !.players[adv.seat + 1] = popped.player],
                 popped.item, returned)
       ELSE [league |-> adv.league, returned |-> returned]

RECURSIVE lock_private_no_purge(_, _, _)
\* mutant: the name locked is left in the queues
lock_private_no_purge(L, pick, returned_picks) ==
    LET cur == L.current_seat + 1
        returned == Append(returned_picks, <<L.players[cur].id, pick>>)
        locked == [L EXCEPT !.players[cur] = lock_in(@, pick)]
        adv == advance(locked)
    IN IF adv.some /\ adv.league.players[adv.seat + 1].queue # <<>>
       THEN LET popped == first_in_queue(adv.league.players[adv.seat + 1])
            IN lock_private_no_purge(
                 [adv.league EXCEPT !.players[adv.seat + 1] = popped.player],
                 popped.item, returned)
       ELSE [league |-> adv.league, returned |-> returned]

RECURSIVE lock_private(_, _, _)
\* lock_private: the league afterwards and the returned picks
lock_private(L, pick, returned_picks) ==
    LET purged == [i \in 1..Len(L.players) |-> delete_from_queue(L.players[i], pick)]
        cur == L.current_seat + 1
        returned == Append(returned_picks, <<purged[cur].id, pick>>)
        locked == [L EXCEPT !.players = [purged EXCEPT ![cur] = lock_in(@, pick)]]
        adv == advance(locked)
    IN IF adv.some /\ adv.league.players[adv.seat + 1].queue # <<>>
       THEN LET popped == first_in_queue(adv.league.players[adv.seat + 1])
            IN lock_private(
                 [adv.league EXCEPT !.players[adv.seat + 1] = popped.player],
                 popped.item, returned)
       ELSE [league |-> adv.league, returned |-> returned]

\* mutant: the active flag is not consulted
lock_unguarded(L, pick) ==
    LET r == lock_private(L, pick, <<>>)
    IN [league |-> r.league, tag |-> "Ok", picks |-> r.returned]

\* lock: the league afterwards, Ok or the error, and the returned picks
lock(L, pick) ==
    IF ~L.active
    THEN [league |-> L, tag |-> "LeagueInactiveError", picks |-> <<>>]
    ELSE LET r == lock_private(L, pick, <<>>)
         IN [league |-> r.league, tag |-> "Ok", picks |-> r.returned]

\* mutant: only the requester's own pick list is searched for the incoming name
waiver_own_picks_only(L, id, waivered_from, waivered_for) ==
    IF L.active THEN [league |-> L, tag |-> "LeagueActiveError"]
    ELSE LET p == get_player(L, id)
         IN IF p = 0 THEN [league |-> L, tag |-> "PlayerNotFoundError"]
            ELSE IF Position(L.players[p].picks, waivered_for) # 0
                 THEN [league |-> L, tag |-> "DraftableInUseError"]
            ELSE IF Position(L.players[p].picks, waivered_from) = 0
                 THEN [league |-> L, tag |-> "DraftableNotFoundError"]
            ELSE [league |-> [L EXCEPT !.players[p] =
                                lock_in(delete_from_picks(@, waivered_from), waivered_for)],
                  tag |-> "Ok"]

\* mutant: the incoming item is added but the outgoing one is not removed
waiver_keeps_outgoing(L, id, waivered_from, waivered_for) ==
    IF L.active THEN [league |-> L, tag |-> "LeagueActiveError"]
    ELSE IF InUse(L, waivered_for) THEN [league |-> L, tag |-> "DraftableInUseError"]
    ELSE LET p == get_player(L, id)
         IN IF p = 0 THEN [league |-> L, tag |-> "PlayerNotFoundError"]
            ELSE IF Position(L.players[p].picks, waivered_from) = 0
                 THEN [league |-> L, tag |-> "DraftableNotFoundError"]
            ELSE [league |-> [L EXCEPT !.players[p] = lock_in(@, waivered_for)],
                  tag |-> "Ok"]

\* waiver: the league afterwards and Ok or the error
waiver(L, id, waivered_from, waivered_for) ==
    IF L.active THEN [league |-> L, tag |-> "LeagueActiveError"]
    ELSE IF InUse(L, waivered_for) THEN [league |-> L, tag |-> "DraftableInUseError"]
    ELSE LET p == get_player(L, id)
         IN IF p = 0 THEN [league |-> L, tag |-> "PlayerNotFoundError"]
            ELSE IF Position(L.players[p].picks, waivered_from) = 0
                 THEN [league |-> L, tag |-> "DraftableNotFoundError"]
            ELSE [league |-> [L EXCEPT !.players[p] =
                                lock_in(delete_from_picks(@, waivered_from), waivered_for)],
                  tag |-> "Ok"]

\* mutant: the active flag is not consulted
trade_unguarded(L, user1, item1, user2, item2) ==
    LET p1 == get_player(L, user1)
    IN IF p1 = 0 THEN [league |-> L, tag |-> "PlayerNotFoundError"]
       ELSE IF Position(L.players[p1].picks, item1) = 0
            THEN [league |-> L, tag |-> "DraftableNotFoundError"]
       ELSE LET L1 == [L EXCEPT !.players[p1] = delete_from_picks(@, item1)]
                p2 == get_player(L1, user2)
            IN IF p2 = 0 THEN [league |-> L1, tag |-> "PlayerNotFoundError"]
               ELSE IF Position(L1.players[p2].picks, item2) = 0
                    THEN [league |-> L1, tag |-> "DraftableNotFoundError"]
               ELSE LET L2 == [L1 EXCEPT !.players[p2] = delete_from_picks(@, item2)]
                        L3 == [L2 EXCEPT !.players[p1] = lock_in(@, item2)]
                    IN [league |-> [L3 EXCEPT !.players[p2] = lock_in(@, item1)],
                        tag |-> "Ok"]

\* mutant: each participant is handed back the item they gave
trade_hands_back(L, user1, item1, user2, item2) ==
    IF L.active THEN [league |-> L, tag |-> "LeagueActiveError"]
    ELSE LET p1 == get_player(L, user1)
         IN IF p1 = 0 THEN [league |-> L, tag |-> "PlayerNotFoundError"]
            ELSE IF Position(L.players[p1].picks, item1) = 0
                 THEN [league |-> L, tag |-> "DraftableNotFoundError"]
            ELSE LET L1 == [L EXCEPT !.players[p1] = delete_from_picks(@, item1)]
                     p2 == get_player(L1, user2)
                 IN IF p2 = 0 THEN [league |-> L1, tag |-> "PlayerNotFoundError"]
                    ELSE IF Position(L1.players[p2].picks, item2) = 0
                         THEN [league |-> L1, tag |-> "DraftableNotFoundError"]
                    ELSE LET L2 == [L1 EXCEPT !.players[p2] = delete_from_picks(@, item2)]
                             L3 == [L2 EXCEPT !.players[p1] = lock_in(@, item1)]
                         IN [league |-> [L3 EXCEPT !.players[p2] = lock_in(@, item2)],
                             tag |-> "Ok"]

\* trade: item1 is taken out of player1 before player2 and item2 are looked up,
\* and an early return drops it
trade(L, user1, item1, user2, item2) ==
    IF L.active THEN [league |-> L, tag |-> "LeagueActiveError"]
    ELSE LET p1 == get_player(L, user1)
         IN IF p1 = 0 THEN [league |-> L, tag |-> "PlayerNotFoundError"]
            ELSE IF Position(L.players[p1].picks, item1) = 0
                 THEN [league |-> L, tag |-> "DraftableNotFoundError"]
            ELSE LET L1 == [L EXCEPT !.players[p1] = delete_from_picks(@, item1)]
                     p2 == get_player(L1, user2)
                 IN IF p2 = 0 THEN [league |-> L1, tag |-> "PlayerNotFoundError"]
                    ELSE IF Position(L1.players[p2].picks, item2) = 0
                         THEN [league |-> L1, tag |-> "DraftableNotFoundError"]
                    ELSE LET L2 == [L1 EXCEPT !.players[p2] = delete_from_picks(@, item2)]
                             L3 == [L2 EXCEPT !.players[p1] = lock_in(@, item2)]
                         IN [league |-> [L3 EXCEPT !.players[p2] = lock_in(@, item1)],
                             tag |-> "Ok"]

add_to_player_queue(L, id, item) ==
    LET p == get_player(L, id)
    IN IF p = 0 THEN [league |-> L, tag |-> "PlayerNotFoundError"]
       ELSE [league |-> [L EXCEPT !.players[p] = add_to_queue(@, item)], tag |-> "Ok"]

delete_from_player_queue(L, id, name) ==
    LET p == get_player(L, id)
    IN IF p = 0 THEN [league |-> L, tag |-> "PlayerNotFoundError"]
       ELSE IF Position(L.players[p].queue, name) = 0
            THEN [league |-> L, tag |-> "DraftableNotFoundError"]
       ELSE [league |-> [L EXCEPT !.players[p] = delete_from_queue(@, name)], tag |-> "Ok"]

clear_player_queue(L, id) ==
    LET p == get_player(L, id)
    IN IF p = 0 THEN [league |-> L, tag |-> "PlayerNotFoundError"]
       ELSE IF L.players[p].queue = <<>>
            THEN [league |-> L, tag |-> "PlayerQueueEmptyError"]
       ELSE [league |-> [L EXCEPT !.players[p].queue = <<>>], tag |-> "Ok"]

\* mutant: the name is not tested against the pick lists
add_to_player_picks_unchecked(L, id, pick) ==
    LET p == get_player(L, id)
    IN IF p = 0 THEN [league |-> L, tag |-> "PlayerNotFoundError"]
       ELSE [league |-> [L EXCEPT !.players[p] = lock_in(@, pick)], tag |-> "Ok"]

add_to_player_picks(L, id, pick) ==
    IF InUse(L, pick) THEN [league |-> L, tag |-> "DraftableInUseError"]
    ELSE LET p == get_player(L, id)
         IN IF p = 0 THEN [league |-> L, tag |-> "PlayerNotFoundError"]
            ELSE [league |-> [L EXCEPT !.players[p] = lock_in(@, pick)], tag |-> "Ok"]

\* ---- DraftGuild -----------------------------------------------------------

\* the names and ids the callers of SpecGuild give their leagues
GuildNames == 1..GuildNumNames

GuildIds == 1..GuildNumIds

\* a league as the guild sees it: its name and its id
GuildLeague(name, id) == [name |-> name, id |-> id]

\* HashMap over a set of entries [key, league]
contains_key(m, key) == \E e \in m : e.key = key

\* HashMap::insert: the entry of that key, if any, is replaced
HashMapInsert(m, key, value) ==
    {e \in m : e.key # key} \cup {[key |-> key, league |-> value]}

\* HashMap::remove
HashMapRemove(m, key) == {e \in m : e.key # key}

\* the leagues under that key / of that id (values().find takes any one of
\* the latter: the iteration order of a HashMap is not specified)
WithKey(m, key) == {e.league : e \in {x \in m : x.key = key}}

WithId(m, id) == {e.league : e \in {x \in m : x.league.id = id}}

\* mutant: the name is not tested, the new league takes the place of the old
add_league_unchecked(m, new_league) ==
    [leagues |-> HashMapInsert(m, new_league.name, new_league), tag |-> "Ok"]

\* add_league: the map afterwards and Ok or the error
add_league(m, new_league) ==
    IF contains_key(m, new_league.name)
    THEN [leagues |-> m, tag |-> "LeagueNameAlreadyInUseError"]
    ELSE [leagues |-> HashMapInsert(m, new_league.name, new_league), tag |-> "Ok"]

\* delete_league / delete_league_by_id of the league found
delete_league(m, key) == HashMapRemove(m, key)

\* every order in which drain() can hand the leagues of m over
Drained(m) ==
    LET ls == {e.league : e \in m}
    IN {s \in [1..Cardinality(ls) -> ls] : \A i, j \in 1..Cardinality(ls) : s[i] = s[j] => i = j}

\* ---- the state machine ----------------------------------------------------

\* the league's fields take the values of L
Becomes(L) ==
    /\ players' = L.players
    /\ active' = L.active
    /\ current_seat' = L.current_seat
    /\ total_picks' = L.total_picks
    /\ draft_type' = L.draft_type
    /\ final_pick' = L.final_pick

\* what a call returned: Ok / Some / None / the error, the seat of Some, the
\* picks returned by lock
Ret(tag, seat, picks) == [tag |-> tag, seat |-> seat, picks |-> picks]

\* the ids callers pass: the roster's and one that is not in the league
UserIds == 1..(Len(players) + 1)

WithinPicks(L) == \A i \in 1..Len(L.players) : Len(L.players[i].picks) <= lim.picks

WithinQueue(L) == \A i \in 1..Len(L.players) : Len(L.players[i].queue) <= lim.queue

InitLeague(L, limits) ==
    /\ players = L.players
    /\ active = L.active
    /\ current_seat = L.current_seat
    /\ total_picks = L.total_picks
    /\ draft_type = L.draft_type
    /\ final_pick = L.final_pick
    /\ call = "new"
    /\ ret = Ret("Ok", 0, <<>>)
    /\ ncalls = 0
    /\ lim = limits
    /\ skipped = 0
    /\ leagues = {}

Init ==
    \E n \in 1..MaxPlayers, dt \in DraftType, team_size \in 1..MaxTeamSize :
        InitLeague(NewLeague(n, dt, team_size),
                   [items |-> NumItems, queue |-> MaxQueue, picks |-> MaxPicks])

Activate ==
    /\ Becomes(activate(Self))
    /\ call' = "activate"
    /\ ret' = Ret("Ok", 0, <<>>)

Deactivate ==
    /\ Becomes(deactivate(Self))
    /\ call' = "deactivate"
    /\ ret' = Ret("Ok", 0, <<>>)

Advance ==
    LET r == advance(Self)
    IN /\ Becomes(r.league)
       /\ call' = "advance"
       /\ ret' = Ret(IF r.some THEN "Some" ELSE "None", r.seat, <<>>)

LockCall(pick) ==
    LET r == lock(Self, pick)
    IN /\ WithinPicks(r.league)
       /\ Becomes(r.league)
       /\ call' = "lock"
       /\ ret' = Ret(r.tag, 0, r.picks)

Lock == \E pick \in ItemNames : LockCall(pick)

WaiverCall(id, waivered_from, waivered_for) ==
    LET r == waiver(Self, id, waivered_from, waivered_for)
    IN /\ Becomes(r.league)
       /\ call' = "waiver"
       /\ ret' = Ret(r.tag, 0, <<>>)

Waiver ==
    \E id \in UserIds, waivered_from \in ItemNames, waivered_for \in ItemNames :
        WaiverCall(id, waivered_from, waivered_for)

TradeCall(user1, item1, user2, item2) ==
    LET r == trade(Self, user1, item1, user2, item2)
    IN /\ Becomes(r.league)
       /\ call' = "trade"
       /\ ret' = Ret(r.tag, 0, <<>>)

Trade ==
    \E user1 \in UserIds, item1 \in ItemNames, user2 \in UserIds, item2 \in ItemNames :
        TradeCall(user1, item1, user2, item2)

AddToPlayerQueueCall(id, item) ==
    LET r == add_to_player_queue(Self, id, item)
    IN /\ WithinQueue(r.league)
       /\ Becomes(r.league)
       /\ call' = "add_to_player_queue"
       /\ ret' = Ret(r.tag, 0, <<>>)

AddToPlayerQueue == \E id \in UserIds, item \in ItemNames : AddToPlayerQueueCall(id, item)

DeleteFromPlayerQueueCall(id, name) ==
    LET r == delete_from_player_queue(Self, id, name)
    IN /\ Becomes(r.league)
       /\ call' = "delete_from_player_queue"
       /\ ret' = Ret(r.tag, 0, <<>>)

DeleteFromPlayerQueue ==
    \E id \in UserIds, name \in ItemNames : DeleteFromPlayerQueueCall(id, name)

ClearPlayerQueueCall(id) ==
    LET r == clear_player_queue(Self, id)
    IN /\ Becomes(r.league)
       /\ call' = "clear_player_queue"
       /\ ret' = Ret(r.tag, 0, <<>>)

ClearPlayerQueue == \E id \in UserIds : ClearPlayerQueueCall(id)

AddToPlayerPicksCall(id, pick) ==
    LET r == add_to_player_picks(Self, id, pick)
    IN /\ WithinPicks(r.league)
       /\ Becomes(r.league)
       /\ call' = "add_to_player_picks"
       /\ ret' = Ret(r.tag, 0, <<>>)

AddToPlayerPicks == \E id \in UserIds, pick \in ItemNames : AddToPlayerPicksCall(id, pick)

\* every operation of the league, in any order
Next ==
    \/ Activate /\ UNCHANGED <<ncalls, lim, skipped, leagues>>
    \/ Deactivate /\ UNCHANGED <<ncalls, lim, skipped, leagues>>
    \/ Advance /\ UNCHANGED <<ncalls, lim, skipped, leagues>>
    \/ Lock /\ UNCHANGED <<ncalls, lim, skipped, leagues>>
    \/ Waiver /\ UNCHANGED <<ncalls, lim, skipped, leagues>>
    \/ Trade /\ UNCHANGED <<ncalls, lim, skipped, leagues>>
    \/ AddToPlayerQueue /\ UNCHANGED <<ncalls, lim, skipped, leagues>>
    \/ DeleteFromPlayerQueue /\ UNCHANGED <<ncalls, lim, skipped, leagues>>
    \/ ClearPlayerQueue /\ UNCHANGED <<ncalls, lim, skipped, leagues>>
    \/ AddToPlayerPicks /\ UNCHANGED <<ncalls, lim, skipped, leagues>>

Spec == Init /\ [][Next]_vars

\* the draft itself: rosters up to DraftMaxPlayers, queues up to DraftMaxQueue
InitDraft ==
    \E n \in 1..DraftMaxPlayers, dt \in DraftType, team_size \in 1..DraftMaxTeamSize :
        InitLeague(NewLeague(n, dt, team_size),
                   [items |-> DraftNumItems, queue |-> DraftMaxQueue,
                    picks |-> DraftMaxPicks])

NextDraft ==
    \/ Activate /\ UNCHANGED <<ncalls, lim, skipped, leagues>>
    \/ Deactivate /\ UNCHANGED <<ncalls, lim, skipped, leagues>>
    \/ Advance /\ UNCHANGED <<ncalls, lim, skipped, leagues>>
    \/ Lock /\ UNCHANGED <<ncalls, lim, skipped, leagues>>
    \/ AddToPlayerQueue /\ UNCHANGED <<ncalls, lim, skipped, leagues>>
    \/ DeleteFromPlayerQueue /\ UNCHANGED <<ncalls, lim, skipped, leagues>>
    \/ ClearPlayerQueue /\ UNCHANGED <<ncalls, lim, skipped, leagues>>

SpecDraft == InitDraft /\ [][NextDraft]_vars

\* a new league, activated once and then driven by advance() alone
InitAdvance ==
    \E n \in 1..AdvMaxPlayers, dt \in DraftType, team_size \in 1..AdvMaxTeamSize :
        InitLeague(NewLeague(n, dt, team_size),
                   [items |-> 0, queue |-> 0, picks |-> 0])

NextAdvance ==
    \/ /\ call = "new"
       /\ Activate
       /\ UNCHANGED <<ncalls, lim, skipped, leagues>>
    \/ /\ call # "new"
       /\ ncalls <= final_pick + AdvExtraCalls
       /\ Advance
       /\ ncalls' = ncalls + 1
       /\ UNCHANGED <<lim, skipped, leagues>>

SpecAdvance == InitAdvance /\ [][NextAdvance]_vars

\* a new league, activated once; every turn is taken by lock (queues may be
\* filled in between) but one, which is skipped by calling advance() directly
InitSkip ==
    \E n \in 1..SkipMaxPlayers, dt \in DraftType, team_size \in 1..SkipMaxTeamSize :
        InitLeague(NewLeague(n, dt, team_size),
                   [items |-> SkipNumItems, queue |-> SkipMaxQueue,
                    picks |-> SkipMaxPicks])

NextSkip ==
    \/ /\ call = "new"
       /\ Activate
       /\ UNCHANGED <<ncalls, lim, skipped, leagues>>
    \/ /\ active
       /\ Lock
       /\ UNCHANGED <<ncalls, lim, skipped, leagues>>
    \/ /\ active
       /\ AddToPlayerQueue
       /\ UNCHANGED <<ncalls, lim, skipped, leagues>>
    \/ /\ active
       /\ skipped = 0
       /\ Advance
       /\ skipped' = players[current_seat + 1].id
       /\ UNCHANGED <<ncalls, lim, leagues>>

SpecSkip == InitSkip /\ [][NextSkip]_vars

\* a league whose participants fill their queues and lock
InitFifo ==
    \E n \in 1..FifoMaxPlayers, dt \in DraftType, team_size \in 1..FifoMaxTeamSize :
        InitLeague(NewLeague(n, dt, team_size),
                   [items |-> FifoNumItems, queue |-> FifoMaxQueue,
                    picks |-> FifoMaxPicks])

NextFifo ==
    \/ Activate /\ UNCHANGED <<ncalls, lim, skipped, leagues>>
    \/ Lock /\ UNCHANGED <<ncalls, lim, skipped, leagues>>
    \/ AddToPlayerQueue /\ UNCHANGED <<ncalls, lim, skipped, leagues>>

SpecFifo == InitFifo /\ [][NextFifo]_vars

\* ---- the guild's state machine ---------------------------------------------

\* what the guild's operations leave alone
beside_leagues == <<players, active, current_seat, total_picks, draft_type,
                    final_pick, ncalls, lim, skipped>>

\* DraftGuild::new; the league variables hold a league that is never touched
InitGuild ==
    InitLeague(NewLeague(1, "Snake", 1), [items |-> 0, queue |-> 0, picks |-> 0])

AddLeagueCall(new_league) ==
    LET r == add_league(leagues, new_league)
    IN /\ leagues' = r.leagues
       /\ call' = "add_league"
       /\ ret' = Ret(r.tag, 0, <<>>)
       /\ UNCHANGED beside_leagues

AddLeague == \E name \in GuildNames, id \in GuildIds : AddLeagueCall(GuildLeague(name, id))

LeagueByNameCall(key) ==
    /\ call' = "league_by_name"
    /\ IF contains_key(leagues, key)
       THEN \E l \in WithKey(leagues, key) : ret' = Ret("Ok", 0, <<l>>)
       ELSE ret' = Ret("LeagueNotFoundError", 0, <<>>)
    /\ UNCHANGED leagues
    /\ UNCHANGED beside_leagues

LeagueByName == \E key \in GuildNames : LeagueByNameCall(key)

LeagueByIdCall(id) ==
    /\ call' = "league_by_id"
    /\ IF WithId(leagues, id) # {}
       THEN \E l \in WithId(leagues, id) : ret' = Ret("Ok", 0, <<l>>)
       ELSE ret' = Ret("LeagueNotFoundError", 0, <<>>)
    /\ UNCHANGED leagues
    /\ UNCHANGED beside_leagues

LeagueById == \E id \in GuildIds : LeagueByIdCall(id)

DeleteLeagueCall(key) ==
    /\ call' = "delete_league"
    /\ IF contains_key(leagues, key)
       THEN \E l \in WithKey(leagues, key) :
               /\ leagues' = delete_league(leagues, key)
               /\ ret' = Ret("Ok", 0, <<l>>)
       ELSE /\ ret' = Ret("LeagueNotFoundError", 0, <<>>)
            /\ UNCHANGED leagues
    /\ UNCHANGED beside_leagues

DeleteLeague == \E key \in GuildNames : DeleteLeagueCall(key)

DeleteLeagueByIdCall(id) ==
    /\ call' = "delete_league_by_id"
    /\ IF WithId(leagues, id) # {}
       THEN \E l \in WithId(leagues, id) :
               /\ leagues' = delete_league(leagues, l.name)
               /\ ret' = Ret("Ok", 0, <<l>>)
       ELSE /\ ret' = Ret("LeagueNotFoundError", 0, <<>>)
            /\ UNCHANGED leagues
    /\ UNCHANGED beside_leagues

DeleteLeagueById == \E id \in GuildIds : DeleteLeagueByIdCall(id)

ClearLeagues ==
    /\ call' = "clear_leagues"
    /\ \E s \in Drained(leagues) : ret' = Ret("Ok", 0, s)
    /\ leagues' = {}
    /\ UNCHANGED beside_leagues

NextGuild ==
    \/ AddLeague
    \/ LeagueByName
    \/ LeagueById
    \/ DeleteLeague
    \/ DeleteLeagueById
    \/ ClearLeagues

SpecGuild == InitGuild /\ [][NextGuild]_vars

\* ---- the league's queries ---------------------------------------------------

\* what a query leaves alone: the league itself
league_fields == <<players, active, current_seat, total_picks, draft_type, final_pick>>

IsActive ==
    /\ call' = "active"
    /\ ret' = Ret(IF active THEN "true" ELSE "false", 0, <<>>)
    /\ UNCHANGED league_fields

PlayerQueueCall(id) ==
    LET p == get_player(Self, id)
    IN /\ call' = "player_queue"
       /\ ret' = IF p = 0 THEN Ret("PlayerNotFoundError", 0, <<>>)
                 ELSE IF players[p].queue = <<>> THEN Ret("PlayerQueueEmptyError", 0, <<>>)
                 ELSE Ret("Ok", 0, players[p].queue)
       /\ UNCHANGED league_fields

PlayerQueue == \E id \in UserIds : PlayerQueueCall(id)

PlayerPicksCall(id) ==
    LET p == get_player(Self, id)
    IN /\ call' = "player_picks"
       /\ ret' = IF p = 0 THEN Ret("PlayerNotFoundError", 0, <<>>)
                 ELSE IF players[p].picks = <<>> THEN Ret("PlayerPicksEmptyError", 0, <<>>)
                 ELSE Ret("Ok", 0, players[p].picks)
       /\ UNCHANGED league_fields

PlayerPicks == \E id \in UserIds : PlayerPicksCall(id)

AllPicks ==
    /\ call' = "all_picks"
    /\ ret' = IF all_picks(Self) = <<>> THEN Ret("NoPicksError", 0, <<>>)
              ELSE Ret("Ok", 0, all_picks(Self))
    /\ UNCHANGED league_fields

CurrentPlayer ==
    /\ call' = "current_player"
    /\ ret' = IF ~active THEN Ret("LeagueInactiveError", 0, <<>>)
              ELSE Ret("Ok", current_seat, <<>>)
    /\ UNCHANGED league_fields

\* every operation of the league, the queries included
NextFrame ==
    \/ Activate /\ UNCHANGED <<ncalls, lim, skipped, leagues>>
    \/ Deactivate /\ UNCHANGED <<ncalls, lim, skipped, leagues>>
    \/ Advance /\ UNCHANGED <<ncalls, lim, skipped, leagues>>
    \/ Lock /\ UNCHANGED <<ncalls, lim, skipped, leagues>>
    \/ Waiver /\ UNCHANGED <<ncalls, lim, skipped, leagues>>
    \/ Trade /\ UNCHANGED <<ncalls, lim, skipped, leagues>>
    \/ AddToPlayerQueue /\ UNCHANGED <<ncalls, lim, skipped, leagues>>
    \/ DeleteFromPlayerQueue /\ UNCHANGED <<ncalls, lim, skipped, leagues>>
    \/ ClearPlayerQueue /\ UNCHANGED <<ncalls, lim, skipped, leagues>>
    \/ AddToPlayerPicks /\ UNCHANGED <<ncalls, lim, skipped, leagues>>
    \/ IsActive /\ UNCHANGED <<ncalls, lim, skipped, leagues>>
    \/ PlayerQueue /\ UNCHANGED <<ncalls, lim, skipped, leagues>>
    \/ PlayerPicks /\ UNCHANGED <<ncalls, lim, skipped, leagues>>
    \/ AllPicks /\ UNCHANGED <<ncalls, lim, skipped, leagues>>
    \/ CurrentPlayer /\ UNCHANGED <<ncalls, lim, skipped, leagues>>

SpecFrame == Init /\ [][NextFrame]_vars

\* ---- the claims -----------------------------------------------------------

\* the league's own fields (everything but the record of the last call)
league == <<players, active, current_seat, total_picks, draft_type, final_pick>>

PickLists == [i \in 1..Len(players) |-> players[i].picks]

Queues == [i \in 1..Len(players) |-> players[i].queue]

\* C1: trade is all-or-nothing: a trade call that fails leaves every
\* participant's pick list as it was before the call.
C1_TradeAllOrNothing ==
    [][(call' = "trade" /\ ret'.tag # "Ok") => PickLists' = PickLists]_vars

\* C2: in every reachable state no item name appears more than once across
\* all participants' pick lists.
C2_PickNamesUnique ==
    LET ap == all_picks(Self)
    IN \A i, j \in 1..Len(ap) : i # j => ap[i] # ap[j]

\* C3: after a successful lock(item) has returned, no participant's queue
\* holds an entry named like the locked item (the first record's name).
C3_LockedNameInNoQueue ==
    (call = "lock" /\ ret.tag = "Ok") =>
        \A i \in 1..Len(players) : \A k \in 1..Len(players[i].queue) :
            players[i].queue[k] # ret.picks[1][2]

\* C4: lock on an inactive league returns LeagueInactiveError and changes no
\* pick list, no queue, and none of current_seat, total_picks, active.
C4_LockInactiveChangesNothing ==
    [][(call' = "lock" /\ ~active) =>
          (ret'.tag = "LeagueInactiveError" /\ ret'.picks = <<>> /\ UNCHANGED league)]_vars

\* a lock was refused on an inactive league that already holds picks and queued items
C4_Witness ==
    /\ call = "lock"
    /\ ret.tag = "LeagueInactiveError"
    /\ ~active
    /\ \E i \in 1..Len(players) : players[i].picks # <<>>
    /\ \E i \in 1..Len(players) : players[i].queue # <<>>

\* the seat the configured rotation yields for a league that has made t picks
NextSeat(t) ==
    IF draft_type = "Snake" THEN snake_draft(t, Len(players))
    ELSE linear_draft(t, Len(players))

RECURSIVE WithoutFirst(_, _)
\* s without its first entry equal to name
WithoutFirst(s, name) ==
    IF s = <<>> THEN <<>>
    ELSE IF Head(s) = name THEN Tail(s)
    ELSE <<Head(s)>> \o WithoutFirst(Tail(s), name)

\* C5 (as claimed): A on the clock with an empty queue, B next with a
\* non-empty queue: lock(item) returns exactly [(A, item), (B, front of B's
\* queue)] and B's queue afterwards is its old queue without its front.
C5_CascadeOfOneStep ==
    [][\A pick \in ItemNames :
         LET a == current_seat + 1
             b == NextSeat(total_picks) + 1
         IN (/\ active
             /\ LockCall(pick)
             /\ total_picks # final_pick
             /\ players[a].queue = <<>>
             /\ players[b].queue # <<>>)
            => /\ ret'.picks = << <<players[a].id, pick>>,
                                  <<players[b].id, Head(players[b].queue)>> >>
               /\ players'[b].queue = Tail(players[b].queue)]_vars

\* C5 (amended): in that situation the sequence starts with (A, item); B's
\* queue is first purged of its first entry named item, and if that empties
\* it the sequence is [(A, item)] alone; otherwise the second record is
\* (B, x), x the front of the purged queue, and the sequence has exactly two
\* elements iff the advance after B's pick reports completion or puts on the
\* clock a participant whose queue, purged of item and x, is empty (at a snake
\* turn-around B itself is next); with exactly two elements B's queue is then
\* its purged queue without x and without the first further entry named x.
C5_CascadeAmended ==
    [][\A pick \in ItemNames :
         LET a == current_seat + 1
             b == NextSeat(total_picks) + 1
             qb == WithoutFirst(players[b].queue, pick)
             x == Head(qb)
             more == total_picks + 1 # final_pick
             c == NextSeat(total_picks + 1) + 1
             qc == IF c = b THEN WithoutFirst(Tail(qb), x)
                   ELSE WithoutFirst(WithoutFirst(players[c].queue, pick), x)
             r == ret'.picks
         IN (/\ active
             /\ LockCall(pick)
             /\ total_picks # final_pick
             /\ players[a].queue = <<>>
             /\ players[b].queue # <<>>)
            => IF qb = <<>>
               THEN r = << <<players[a].id, pick>> >> /\ players'[b].queue = <<>>
               ELSE /\ Len(r) >= 2
                    /\ r[1] = <<players[a].id, pick>>
                    /\ r[2] = <<players[b].id, x>>
                    /\ (Len(r) = 2 <=> (~more \/ qc = <<>>))
                    /\ (Len(r) = 2 => players'[b].queue = WithoutFirst(Tail(qb), x))]_vars

\* a lock returned exactly two records, the second for another participant
\* and another item, in a draft that is not over; the first participant's
\* queue is empty
C5_Witness ==
    /\ call = "lock"
    /\ ret.tag = "Ok"
    /\ Len(ret.picks) = 2
    /\ ret.picks[1][1] # ret.picks[2][1]
    /\ ret.picks[1][2] # ret.picks[2][2]
    /\ players[ret.picks[1][1]].queue = <<>>
    /\ active

\* the seat (1-based) that is on the clock for record k of a lock call made now
SeatOfRecord(k) ==
    IF k = 1 THEN current_seat + 1 ELSE NextSeat(total_picks + k - 2) + 1

RECURSIVE QueueAtRecord(_, _, _, _, _)
\* the queue q of seat p as the records j..k-1 of r leave it: each record's name
\* is purged from it, and a record taken for p itself pops its front
QueueAtRecord(q, p, r, j, k) ==
    IF j >= k THEN q
    ELSE LET purged == WithoutFirst(q, r[j][2])
             popped == IF j + 1 < k /\ SeatOfRecord(j + 1) = p /\ purged # <<>>
                       THEN Tail(purged) ELSE purged
         IN QueueAtRecord(popped, p, r, j + 1, k)

\* the names of the records of r made for participant id, in order
NamesFor(r, id) ==
    LET mine == SelectSeq(r, LAMBDA rec : rec[1] = id)
    IN [k \in 1..Len(mine) |-> mine[k][2]]

\* C6: the sequence a successful lock returns reproduces the picks of the
\* call in turn order: the first record is (participant on the clock, supplied
\* item); every later record is the participant the preceding advance put on
\* the clock with the front of that participant's queue at that moment; and
\* the items appended to the pick lists are exactly the records, in order.
C6_ReturnedPicksAreThePicksMade ==
    [][\A pick \in ItemNames :
         (active /\ LockCall(pick)) =>
            LET r == ret'.picks
            IN /\ ret'.tag = "Ok"
               /\ Len(r) >= 1
               /\ r[1] = <<players[current_seat + 1].id, pick>>
               /\ \A k \in 2..Len(r) :
                     LET p == SeatOfRecord(k)
                         q == QueueAtRecord(players[p].queue, p, r, 1, k)
                     IN /\ total_picks + k - 2 < final_pick
                        /\ r[k][1] = players[p].id
                        /\ q # <<>>
                        /\ r[k][2] = Head(q)
               /\ \A p \in 1..Len(players) :
                     players'[p].picks = players[p].picks \o NamesFor(r, players[p].id)]_vars

\* a lock cascaded through at least two queued picks, over both participants
C6_Witness ==
    /\ call = "lock"
    /\ ret.tag = "Ok"
    /\ Len(ret.picks) >= 3
    /\ \E k \in 2..Len(ret.picks) : ret.picks[k][1] # ret.picks[1][1]

\* the seat sequence 0,1,...,n-1,n-1,...,1,0,0,1,... of a snake draft, by index
SnakeSeq(k, n) ==
    LET r == k % (2 * n) IN IF r < n THEN r ELSE (2 * n - 1) - r

Min(a, b) == IF a <= b THEN a ELSE b

\* C7: a new, activated league driven by advance() alone: each of the first
\* final_pick calls returns a participant (and leaves the league active), the
\* call number final_pick + 1 returns none and leaves the league inactive,
\* and so does every further call.
C7_AdvanceUntilComplete ==
    call = "advance" =>
        /\ ncalls >= 1
        /\ ncalls <= final_pick =>
              (ret.tag = "Some" /\ ret.seat = current_seat /\ total_picks = ncalls /\ active)
        /\ ncalls > final_pick =>
              (ret.tag = "None" /\ total_picks = final_pick /\ ~active)
        /\ (Len(players) = 2 /\ draft_type = "Snake" /\ final_pick = 1 /\ ncalls = 1) =>
              (ret.seat = 1 /\ total_picks = 1)

\* advance() was called two times more than final_pick, in a league of several picks
C7_Witness ==
    /\ call = "advance"
    /\ final_pick >= 3
    /\ ncalls = final_pick + 2
    /\ ret.tag = "None"
    /\ ~active

\* C8 (as claimed): the step that makes total_picks reach final_pick also
\* makes the league inactive (so that no state has total_picks = final_pick
\* with the active flag set).
C8_InactiveOnReachingFinalPick ==
    [][(total_picks # final_pick /\ total_picks' = final_pick) => ~active']_vars

\* C8 (amended): the league becomes inactive on the advance that is made when
\* total_picks already equals final_pick, the one that returns no participant:
\* such an advance, called directly or as the last step of a lock, leaves the
\* league inactive with total_picks and current_seat as they were.
C8_InactiveOnAdvancePastFinalPick ==
    [][/\ (call' = "advance" /\ total_picks = final_pick) =>
             (ret'.tag = "None" /\ ~active'
              /\ total_picks' = total_picks /\ current_seat' = current_seat)
       /\ (call' = "advance" /\ total_picks # final_pick) =>
             (ret'.tag = "Some" /\ active' = active /\ total_picks' = total_picks + 1)
       /\ (call' = "lock" /\ ret'.tag = "Ok"
           /\ total_picks' - total_picks < Len(ret'.picks)) =>
             (~active' /\ total_picks' = final_pick)
       /\ (call' = "lock" /\ ret'.tag = "Ok"
           /\ total_picks' - total_picks = Len(ret'.picks)) => active']_vars

\* a lock took the last pick of the draft: its advance found total_picks at
\* final_pick and made the league inactive
C8_Witness ==
    /\ call = "lock"
    /\ ret.tag = "Ok"
    /\ final_pick >= 1
    /\ total_picks = final_pick
    /\ ~active

\* C9: snake rotation over n participants from seat 0: after k advances
\* current_seat is the k-th element of 0,1,...,n-1,n-1,...,0,0,1,..., every
\* advance returns that seat, and snake_draft(7, 5) = 1.
C9_SnakeSeatSequence ==
    draft_type = "Snake" =>
        /\ total_picks = Min(ncalls, final_pick)
        /\ current_seat = SnakeSeq(total_picks, Len(players))
        /\ (call = "advance" /\ ret.tag = "Some") =>
              ret.seat = SnakeSeq(ncalls, Len(players))
        /\ (Len(players) = 5 /\ total_picks = 8) => current_seat = 1

\* a snake league of 5, after the advance made with total_picks = 7: seat 1
C9_Witness ==
    /\ draft_type = "Snake"
    /\ Len(players) = 5
    /\ call = "advance"
    /\ ret.tag = "Some"
    /\ ncalls = 8
    /\ current_seat = 1

\* C10: linear rotation over n participants: after k advances from a new
\* league current_seat = k mod n, and every advance returns that seat.
C10_LinearSeatSequence ==
    draft_type = "Linear" =>
        /\ total_picks = Min(ncalls, final_pick)
        /\ current_seat = total_picks % Len(players)
        /\ (call = "advance" /\ ret.tag = "Some") =>
              ret.seat = ncalls % Len(players)

\* a linear league of 5 that has wrapped around to seat 0 and gone on to seat 1
C10_Witness ==
    /\ draft_type = "Linear"
    /\ Len(players) = 5
    /\ call = "advance"
    /\ ret.tag = "Some"
    /\ ncalls = 6
    /\ current_seat = 1

\* C11: in every reachable state of a league with a non-empty roster the
\* current seat is a valid index into the roster, 0 <= current_seat < number
\* of participants, in both draft modes and whatever calls were made.
C11_SeatInRange ==
    Len(players) >= 1 => (current_seat >= 0 /\ current_seat < Len(players))

\* a snake draft of two that has gone to the last seat, stayed there for the
\* turn of the seam and come back to seat 0 by lock calls
C11_Witness ==
    /\ Len(players) = 2
    /\ draft_type = "Snake"
    /\ call = "lock"
    /\ ret.tag = "Ok"
    /\ total_picks = 3
    /\ current_seat = 0

\* C12: total_picks never decreases across any operation, and in every
\* reachable state 0 <= total_picks <= final_pick + 1.
C12_TotalPicksMonotoneAndBounded ==
    /\ [](total_picks >= 0 /\ total_picks <= final_pick + 1)
    /\ [][total_picks' >= total_picks]_vars

\* a league of four turns whose counter has climbed to its last value and
\* that has been through a waiver since
C12_Witness ==
    /\ final_pick = 3
    /\ total_picks = final_pick
    /\ ~active
    /\ call = "waiver"
    /\ ret.tag = "Ok"

\* some participant's pick list holds an item of that name
NameLocked(name) ==
    \E i \in 1..Len(players) : \E k \in 1..Len(players[i].picks) :
        players[i].picks[k] = name

\* participant id's pick list holds an item of that name
Holds(id, name) ==
    \E i \in 1..Len(players) :
        players[i].id = id /\ \E k \in 1..Len(players[i].picks) : players[i].picks[k] = name

\* C13: on an inactive league, waiver returns DraftableInUseError and changes
\* no pick list (nor anything else of the league) whenever the incoming
\* name is the name of an item in any participant's pick list: also when the
\* requester does not hold it, and when it is the item being waived.
C13_WaiverForLockedNameIsInUse ==
    [][(call' = "waiver" /\ ~active) =>
          \A id \in UserIds, waivered_from \in ItemNames, waivered_for \in ItemNames :
             (NameLocked(waivered_for) /\ WaiverCall(id, waivered_from, waivered_for)) =>
                (ret'.tag = "DraftableInUseError" /\ UNCHANGED league)]_vars

\* the two names are locked by two different participants, so the refused
\* waiver covers a requester who does not hold the incoming name and a
\* requester who waives the very name they ask for
C13_Witness ==
    /\ call = "waiver"
    /\ ret.tag = "DraftableInUseError"
    /\ ~active
    /\ Len(players) = 2
    /\ players[1].picks = <<1>>
    /\ players[2].picks = <<2>>

\* C14: while the league is active every waiver and every trade returns
\* LeagueActiveError, whatever its arguments, and leaves the pick lists, the
\* queues, current_seat, total_picks and the active flag unchanged.
C14_ActiveLeagueRefusesWaiverAndTrade ==
    [][(active /\ call' \in {"waiver", "trade"}) =>
          /\ ret'.tag = "LeagueActiveError"
          /\ PickLists' = PickLists
          /\ Queues' = Queues
          /\ UNCHANGED <<current_seat, total_picks, active>>]_vars

\* a trade refused in the middle of a draft, where both participants hold
\* an item the trade could have moved
C14_Witness ==
    /\ call = "trade"
    /\ ret.tag = "LeagueActiveError"
    /\ active
    /\ Len(players) = 2
    /\ players[1].picks # <<>>
    /\ players[2].picks # <<>>

\* C15: a waiver on an inactive league, by a known participant, for an
\* incoming name that is in no pick list: if the outgoing name is in that
\* participant's pick list, exactly that entry is removed and the incoming
\* item is appended at the end of the list, every other list unchanged;
\* otherwise it returns DraftableNotFoundError and no pick list changes.
C15_WaiverSwapsOneEntry ==
    [][(call' = "waiver" /\ ~active) =>
          \A p \in 1..Len(players), waivered_from \in ItemNames, waivered_for \in ItemNames :
             (~NameLocked(waivered_for)
                /\ WaiverCall(players[p].id, waivered_from, waivered_for)) =>
                   IF Holds(players[p].id, waivered_from)
                   THEN /\ ret'.tag = "Ok"
                        /\ PickLists' = [PickLists EXCEPT ![p] =
                              Append(WithoutFirst(@, waivered_from), waivered_for)]
                   ELSE /\ ret'.tag = "DraftableNotFoundError"
                        /\ PickLists' = PickLists]_vars

\* a waiver that took the first of two entries of the same name out of a
\* list of two, beside another participant who holds an item as well
C15_Witness ==
    /\ call = "waiver"
    /\ ret.tag = "Ok"
    /\ \E p \in 1..Len(players) :
          /\ Len(players[p].picks) = 2
          /\ players[p].picks[1] # players[p].picks[2]
          /\ \E q \in 1..Len(players) : q # p /\ players[q].picks # <<>>

\* how many entries of s are named x
Count(s, x) == Cardinality({k \in 1..Len(s) : s[k] = x})

\* how many entries of all the pick lists of the function f are named x
RECURSIVE CountAll(_, _, _)
CountAll(f, n, x) == IF n = 0 THEN 0 ELSE Count(f[n], x) + CountAll(f, n - 1, x)

\* the list t holds what s holds, less one entry named out, plus one named in
LessPlus(s, t, out, in) ==
    \A x \in ItemNames :
        Count(t, x) = Count(s, x) - (IF x = out THEN 1 ELSE 0) + (IF x = in THEN 1 ELSE 0)

\* the multiset of all locked names and the length of every list are kept
TradeKeepsNamesAndLengths ==
    /\ \A x \in ItemNames :
          CountAll(PickLists', Len(players), x) = CountAll(PickLists, Len(players), x)
    /\ \A i \in 1..Len(players) : Len(PickLists'[i]) = Len(PickLists[i])

\* C16 as stated: a successful trade(user1, item1, user2, item2) on an
\* inactive league leaves user1's pick list as its old list without item1
\* plus item2, user2's as its old list without item2 plus item1 (read here as
\* multisets, the order left open), every other list unchanged, and keeps
\* the multiset of all locked names and the length of every list.
C16_TradeSwapsTheTwoItems ==
    [][(call' = "trade" /\ ret'.tag = "Ok") =>
          \A p1, p2 \in 1..Len(players), item1, item2 \in ItemNames :
             TradeCall(players[p1].id, item1, players[p2].id, item2) =>
                /\ ~active
                /\ LessPlus(PickLists[p1], PickLists'[p1], item1, item2)
                /\ LessPlus(PickLists[p2], PickLists'[p2], item2, item1)
                /\ \A i \in 1..Len(players) \ {p1, p2} : PickLists'[i] = PickLists[i]
                /\ TradeKeepsNamesAndLengths]_vars

\* C16 amended: between two different participants the trade does exactly
\* that, each list losing the first entry of the name given and gaining the
\* name received at its end; when user1 and user2 are the same participant
\* their list loses both entries and gains item2 then item1 at its end, so it
\* holds the same names as before. In both cases every other list is
\* unchanged and the multiset of locked names and every length are kept.
C16_TradeSwapsBetweenTwoParticipants ==
    [][(call' = "trade" /\ ret'.tag = "Ok") =>
          \A p1, p2 \in 1..Len(players), item1, item2 \in ItemNames :
             TradeCall(players[p1].id, item1, players[p2].id, item2) =>
                /\ ~active
                /\ p1 # p2 =>
                      /\ PickLists'[p1] = Append(WithoutFirst(PickLists[p1], item1), item2)
                      /\ PickLists'[p2] = Append(WithoutFirst(PickLists[p2], item2), item1)
                /\ p1 = p2 =>
                      PickLists'[p1] =
                         WithoutFirst(WithoutFirst(PickLists[p1], item1), item2)
                            \o <<item2, item1>>
                /\ \A i \in 1..Len(players) \ {p1, p2} : PickLists'[i] = PickLists[i]
                /\ TradeKeepsNamesAndLengths]_vars

\* a successful trade has left two participants with lists of two, the
\* traded names at their ends
C16_Witness ==
    /\ call = "trade"
    /\ ret.tag = "Ok"
    /\ ~active
    /\ Len(players) = 2
    /\ Len(players[1].picks) = 2
    /\ Len(players[2].picks) = 2
    /\ players[1].picks[2] # players[2].picks[2]

\* id is the id of a participant of the league
Known(id) == \E i \in 1..Len(players) : players[i].id = id

\* C17: add_to_player_picks returns DraftableInUseError when the name is
\* already in any participant's pick list and, the name being free,
\* PlayerNotFoundError when the id is unknown; a failed call changes nothing.
\* A successful call appends the item to that participant's pick list only,
\* and changes neither the queues nor current_seat, total_picks nor active.
C17_AddToPlayerPicks ==
    [][call' = "add_to_player_picks" =>
          \A id \in UserIds, pick \in ItemNames :
             AddToPlayerPicksCall(id, pick) =>
                IF NameLocked(pick)
                THEN ret'.tag = "DraftableInUseError" /\ UNCHANGED league
                ELSE IF ~Known(id)
                THEN ret'.tag = "PlayerNotFoundError" /\ UNCHANGED league
                ELSE /\ ret'.tag = "Ok"
                     /\ \E p \in 1..Len(players) :
                           /\ players[p].id = id
                           /\ PickLists' = [PickLists EXCEPT ![p] = Append(@, pick)]
                     /\ Queues' = Queues
                     /\ UNCHANGED <<current_seat, total_picks, active,
                                    draft_type, final_pick>>]_vars

\* a direct insertion refused in the middle of a draft because the other
\* participant holds the name
C17_Witness ==
    /\ call = "add_to_player_picks"
    /\ ret.tag = "DraftableInUseError"
    /\ active
    /\ Len(players) = 2
    /\ \E p \in 1..2 : players[p].picks = <<>> /\ players[3 - p].picks # <<>>

\* C19: deleting from a participant's queue by name removes exactly the first
\* entry of that name and keeps the order of the others (from [X, Y], delete
\* X leaves [Y]); deleting a name the queue does not hold returns the
\* not-found error and leaves that queue and everything else unchanged.
C19_DeleteFromQueueRemovesFirstEntry ==
    [][call' = "delete_from_player_queue" =>
          \A p \in 1..Len(players), name \in ItemNames :
             DeleteFromPlayerQueueCall(players[p].id, name) =>
                IF Count(players[p].queue, name) > 0
                THEN /\ ret'.tag = "Ok"
                     /\ Queues' = [Queues EXCEPT ![p] = WithoutFirst(@, name)]
                     /\ name = 1 /\ players[p].queue = <<1, 2>> => players'[p].queue = <<2>>
                     /\ PickLists' = PickLists
                     /\ UNCHANGED <<active, current_seat, total_picks,
                                    draft_type, final_pick>>
                ELSE /\ ret'.tag = "DraftableNotFoundError"
                     /\ UNCHANGED league]_vars

\* a delete has left a queue with one entry, beside another participant's
\* queue of two that holds that name once and was not touched
C19_Witness ==
    /\ call = "delete_from_player_queue"
    /\ ret.tag = "Ok"
    /\ Len(players) = 2
    /\ \E p \in 1..2 :
          /\ Len(players[p].queue) = 1
          /\ Len(players[3 - p].queue) = 2
          /\ Count(players[3 - p].queue, players[p].queue[1]) = 1

\* the team size the league was made with: final_pick = roster * team_size - 1
TeamSize == (final_pick + 1) \div Len(players)

\* the draft has run to its end: the last lock or advance deactivated the league
DraftOver == call \in {"lock", "advance"} /\ ~active

\* C18: in a draft run from a new, activated league in which exactly one turn
\* was skipped by calling advance() directly while participant P was on the
\* clock, and every other turn was taken by lock, the draft ends with P
\* holding exactly team_size - 1 items and every other participant holding
\* exactly team_size.
C18_SkippedParticipantEndsOneShort ==
    (DraftOver /\ skipped # 0) =>
        \A i \in 1..Len(players) :
            Len(players[i].picks) =
                IF players[i].id = skipped THEN TeamSize - 1 ELSE TeamSize

\* a snake draft of three with teams of two, the second participant skipped,
\* ended by a lock that cascaded through a queue
C18_Witness ==
    /\ DraftOver
    /\ skipped = 2
    /\ Len(players) = 3
    /\ draft_type = "Snake"
    /\ TeamSize = 2
    /\ call = "lock"
    /\ Len(ret.picks) = 2

\* a league of that name is stored in the guild
NameStored(name) == \E e \in leagues : e.league.name = name

\* C20: a DraftGuild never holds two leagues of the same name: add_league
\* with a name that is already present returns LeagueNameAlreadyInUseError
\* and leaves the stored league and the rest of the collection unchanged;
\* league_by_name and delete_league on an absent name return
\* LeagueNotFoundError.
C20_LeagueNamesUnique ==
    /\ [](\A e1, e2 \in leagues :
             (e1.league.name = e2.league.name \/ e1.key = e2.key) => e1 = e2)
    /\ [][call' = "add_league" =>
             \A name \in GuildNames, id \in GuildIds :
                (NameStored(name) /\ AddLeagueCall(GuildLeague(name, id))) =>
                   (ret'.tag = "LeagueNameAlreadyInUseError" /\ leagues' = leagues)]_vars
    /\ [][call' \in {"league_by_name", "delete_league"} =>
             \A key \in GuildNames :
                (~NameStored(key) /\ (LeagueByNameCall(key) \/ DeleteLeagueCall(key))) =>
                   (ret'.tag = "LeagueNotFoundError" /\ leagues' = leagues)]_vars

\* a full guild, one league under each name and two of them with the same
\* id, has just refused another league
C20_Witness ==
    /\ call = "add_league"
    /\ ret.tag = "LeagueNameAlreadyInUseError"
    /\ Cardinality(leagues) = GuildNumNames
    /\ \E e1, e2 \in leagues : e1 # e2 /\ e1.league.id = e2.league.id

\* the seat that is on the clock at turn t: t mod n in a linear draft, the
\* element of index t of 0,1,...,n-1,n-1,...,0,0,1,... in a snake draft
SeatAt(t) ==
    IF draft_type = "Snake" THEN SnakeSeq(t, Len(players)) ELSE t % Len(players)

RECURSIVE AfterAdvances(_, _, _)
\* <<current_seat, total_picks>> after k advance steps made from seat and t
AfterAdvances(k, seat, t) ==
    IF k = 0 THEN <<seat, t>>
    ELSE IF t = final_pick THEN AfterAdvances(k - 1, seat, t)
    ELSE AfterAdvances(k - 1, SeatAt(t + 1), t + 1)

\* C21: advance is the only place the turn state changes: activate,
\* deactivate, waiver, trade, add_to_player_queue, delete_from_player_queue,
\* clear_player_queue, add_to_player_picks and every query leave current_seat
\* and total_picks unchanged, and lock changes them only by the advance steps
\* it performs, one per record it returns.
C21_OnlyAdvanceMovesTheTurn ==
    [][/\ call' \notin {"advance", "lock"} => UNCHANGED <<current_seat, total_picks>>
       /\ call' = "lock" =>
             <<current_seat', total_picks'>> =
                AfterAdvances(Len(ret'.picks), current_seat, total_picks)
       /\ call' = "advance" =>
             <<current_seat', total_picks'>> = AfterAdvances(1, current_seat, total_picks)]_vars

\* a query answered in the middle of a draft, the turn state where the locks
\* left it
C21_Witness ==
    /\ call = "player_picks"
    /\ ret.tag = "Ok"
    /\ active
    /\ total_picks = 2
    /\ current_seat = 1

\* no queue holds the same name twice
NoQueueHoldsANameTwice ==
    \A i \in 1..Len(players) : \A x \in ItemNames : Count(players[i].queue, x) <= 1

\* C22: within one lock call a queued item whose name was locked earlier in
\* the same call is never auto-picked: the lock of a name purges it from the
\* other queues, whose owners auto-pick their next queued item instead, so,
\* provided no single queue holds the same name twice, the returned sequence
\* contains no name twice.
C22_NoNameTwiceInOneLock ==
    [][(call' = "lock" /\ NoQueueHoldsANameTwice) =>
          /\ \A j, k \in 1..Len(ret'.picks) :
                ret'.picks[j][2] = ret'.picks[k][2] => j = k
          /\ \A pick \in ItemNames :
                LET b == NextSeat(total_picks) + 1
                IN (/\ active
                    /\ LockCall(pick)
                    /\ total_picks # final_pick
                    /\ Len(players[b].queue) = 2
                    /\ Head(players[b].queue) = pick)
                   => /\ Len(ret'.picks) >= 2
                      /\ ret'.picks[2] = <<players[b].id, players[b].queue[2]>>]_vars

\* a lock went through three records of three different names, over both
\* participants
C22_Witness ==
    /\ call = "lock"
    /\ ret.tag = "Ok"
    /\ Len(ret.picks) = 3
    /\ \A j, k \in 1..3 : ret.picks[j][2] = ret.picks[k][2] => j = k
    /\ \E k \in 2..3 : ret.picks[k][1] # ret.picks[1][1]

\* C23: queues are FIFO: add_to_player_queue appends at the back; whenever a
\* participant's turn arrives in the cascade of a lock the item locked for
\* them is the earliest-enqueued item still in their queue, its front; and
\* the items left in a queue keep their relative order.
C23_QueuesAreFifo ==
    [][/\ call' = "add_to_player_queue" =>
             \A p \in 1..Len(players), item \in ItemNames :
                AddToPlayerQueueCall(players[p].id, item) =>
                   Queues' = [Queues EXCEPT ![p] = Append(@, item)]
       /\ call' = "lock" =>
             \A pick \in ItemNames :
                (active /\ LockCall(pick)) =>
                   LET r == ret'.picks
                   IN /\ \A k \in 2..Len(r) :
                            LET p == SeatOfRecord(k)
                            IN r[k] = <<players[p].id,
                                        Head(QueueAtRecord(players[p].queue, p, r, 1, k))>>
                      /\ \A p \in 1..Len(players) :
                            players'[p].queue =
                               QueueAtRecord(players[p].queue, p, r, 1, Len(r) + 1)]_vars

\* a lock has taken the front of another participant's queue of two
\* different names, neither of them the name locked first, and left the
\* second one in the queue
C23_Witness ==
    /\ call = "lock"
    /\ ret.tag = "Ok"
    /\ Len(ret.picks) = 2
    /\ ret.picks[2][1] # ret.picks[1][1]
    /\ Len(players[ret.picks[2][1]].queue) = 1
    /\ players[ret.picks[2][1]].queue[1] \notin {ret.picks[1][2], ret.picks[2][2]}

\* C24: every lock call terminates: the cascade makes at most
\* final_pick - total_picks + 1 picks, total_picks taken when lock is called
\* (and a successful lock makes at least the one pick it was given).
C24_CascadeIsBounded ==
    [][(call' = "lock" /\ ret'.tag = "Ok") =>
          /\ Len(ret'.picks) >= 1
          /\ Len(ret'.picks) <= final_pick - total_picks + 1]_vars

\* a lock called with three turns left made all three picks and ended the
\* draft
C24_Witness ==
    /\ call = "lock"
    /\ ret.tag = "Ok"
    /\ Len(ret.picks) = 3
    /\ final_pick = 3
    /\ total_picks = 3
    /\ ~active

\* C25: in every reachable state of a league made by League::new the current
\* seat is determined by total_picks and the rotation mode alone:
\* current_seat = total_picks mod n in a linear draft, and in a snake draft
\* the element of index total_picks of 0,1,...,n-1,n-1,...,0,0,1,...; no
\* interleaving of lock, skip, pause and resume, trade, waiver or queue
\* edits breaks this.
C25_SeatIsAFunctionOfTotalPicks ==
    /\ draft_type = "Linear" => current_seat = total_picks % Len(players)
    /\ draft_type = "Snake" => current_seat = SnakeSeq(total_picks, Len(players))

\* a paused snake draft of two, at the second turn of the last seat, after a
\* waiver
C25_Witness ==
    /\ draft_type = "Snake"
    /\ Len(players) = 2
    /\ total_picks = 2
    /\ current_seat = 1
    /\ ~active
    /\ call = "waiver"
    /\ ret.tag = "Ok"

\* C26: in a draft run from a new league that is activated once and then
\* driven by lock calls only (no direct advance, no direct assignment), at
\* the moment the league deactivates on completion every participant holds
\* exactly team_size locked items, in both modes and for any roster.
C26_LockOnlyDraftFillsEveryTeam ==
    (DraftOver /\ skipped = 0) =>
        \A i \in 1..Len(players) : Len(players[i].picks) = TeamSize

\* a linear draft of three with teams of two has ended, no turn skipped, on
\* a lock that cascaded
C26_Witness ==
    /\ DraftOver
    /\ skipped = 0
    /\ call = "lock"
    /\ Len(players) = 3
    /\ draft_type = "Linear"
    /\ TeamSize = 2
    /\ Len(ret.picks) = 2

RECURSIVE LockedCount(_)
\* the number of items in the pick lists of the first n participants
LockedCount(n) == IF n = 0 THEN 0 ELSE Len(players[n].picks) + LockedCount(n - 1)

\* C27: the number of items that lock has placed into pick lists over the
\* life of a league never exceeds participants x team_size = final_pick + 1,
\* for any sequence of activate, deactivate, lock and advance calls (where
\* nothing but lock fills a pick list and nothing empties one, that number
\* is the number of items held).
C27_LocksNeverExceedTheDraft ==
    LockedCount(Len(players)) <= final_pick + 1

\* C28: advance does not consult the active flag: called on an inactive
\* league with total_picks < final_pick it sets current_seat to the next
\* seat, adds 1 to total_picks and returns that participant, and the league
\* stays inactive; so the turn state can change while a draft is paused or
\* before it was ever activated.
C28_AdvanceIgnoresTheActiveFlag ==
    [][(call' = "advance" /\ ~active /\ total_picks < final_pick) =>
          /\ total_picks' = total_picks + 1
          /\ current_seat' = SeatAt(total_picks + 1)
          /\ ret'.tag = "Some"
          /\ ret'.seat = current_seat'
          /\ ~active'
          /\ UNCHANGED <<players, draft_type, final_pick>>]_vars

\* a league that was never activated (it holds no pick and no queued item)
\* has been advanced to its second seat
C28_Witness ==
    /\ call = "advance"
    /\ ret.tag = "Some"
    /\ ret.seat = 1
    /\ ~active
    /\ current_seat = 1
    /\ total_picks = 1
    /\ Len(players) = 2
    /\ \A i \in 1..2 : players[i].picks = <<>> /\ players[i].queue = <<>>

====
